---- MODULE Spec2Model ----
(***************************************************************************)
(* rocthinc: URL -> fetched HTML -> Conversation -> Markdown / LaTeX zip.  *)
(* Two applications live in the repository and are modelled side by side:  *)
(*   "main" : src/main.py       (async, Playwright for ChatGPT URLs only)  *)
(*   "api"  : src/api/index.py  (sync, direct GET with rendered fallback)  *)
(* Text is a sequence of one-character strings, so that trimming and       *)
(* per-character replacement are computed, not assumed.                    *)
(***************************************************************************)
EXTENDS Integers, Sequences, FiniteSets, TLC

VARIABLES
    variant,     \* which application serves the request: "main" | "api"
    pc,          \* position of the request (or of the function under test)
    url,         \* the request's URL (the domain it contains)
    transport,   \* "get" | "post" | "none"
    formats,     \* the formats argument as received (None when unset)
    fmts,        \* the list handed to make_zip_response
    direct,      \* outcome of requests.get: "none" | "neterr" | status code
    renderSite,  \* api: where fetch_with_playwright was called: "try" | "except"
    renderTries, \* rendered fetches started by this request
    html,        \* the HTML in hand (NoHtml before a fetch returned)
    openPages,   \* browser pages currently open in the worker
    result,      \* the request's outcome (conversation, archive, error)
    arg,         \* argument of the pure function under test
    ret          \* its return value

vars == <<variant, pc, url, transport, formats, fmts, direct, renderSite,
          renderTries, html, openPages, result, arg, ret>>

(* ------------------------------ bounds -------------------------------- *)

MaxFormats == 2   \* names in a formats argument
MaxNodes == 2     \* role-marked elements in a page handed to the DOM scan
MaxMapping == 3   \* nodes in a __NEXT_DATA__ mapping
MaxTime == 2      \* largest create_time
MaxText == 3      \* characters in a text handed to escape_latex
MaxOpen == 2      \* open pages counted before the model stops counting
MaxDelta == 16    \* how far below and above the budget the page texts' lengths go

(* ------------------------------- text --------------------------------- *)

IsSpace(c) == c \in {" ", "\n"}

RECURSIVE LStrip(_)
LStrip(s) == IF s # <<>> /\ IsSpace(Head(s)) THEN LStrip(Tail(s)) ELSE s

RECURSIVE RStrip(_)
RStrip(s) ==
    IF s # <<>> /\ IsSpace(s[Len(s)]) THEN RStrip(SubSeq(s, 1, Len(s) - 1)) ELSE s

\* str.strip()
Strip(s) == RStrip(LStrip(s))

\* sep.join(parts)
RECURSIVE Join(_, _)
Join(sep, parts) ==
    IF parts = <<>> THEN <<>>
    ELSE IF Len(parts) = 1 THEN parts[1]
    ELSE parts[1] \o sep \o Join(sep, Tail(parts))

Range(s) == {s[i] : i \in 1..Len(s)}

SeqsUpTo(S, n) == UNION {[1..k -> S] : k \in 0..n}

(* ------------------------------- pages -------------------------------- *)
(* A page is what the parsers read from it:                                *)
(*   phrase  : a login / app / marketing phrase occurs in the markup       *)
(*   nodes   : the elements carrying data-message-author-role, in document *)
(*             order, each with its role value and its text strings        *)
(*   script  : the <script id="__NEXT_DATA__"> block                       *)
(*   body    : the text outside the role-marked elements                   *)

NoHtml == [kind |-> "none"]

NoConv == [kind |-> "None"]

Conv(messages) == [kind |-> "conv", messages |-> messages]

RECURSIVE StrippedStrings(_)
StrippedStrings(strings) ==
    IF strings = <<>> THEN <<>>
    ELSE (IF Strip(Head(strings)) = <<>> THEN <<>> ELSE <<Strip(Head(strings))>>)
         \o StrippedStrings(Tail(strings))

\* node.get_text("\n", strip=True)
GetText(node) == Join(<<"\n">>, StrippedStrings(node.strings))

(* --------------------------- wall detection --------------------------- *)

looks_like_chatgpt_login_or_landing(h) ==
    IF h.phrase THEN TRUE
    ELSE IF h.nodes = <<>> THEN TRUE
    ELSE FALSE

(* --------------------------- DOM attribute scan ----------------------- *)

\* the loop of parse_chatgpt_dom without its "if not text: continue"
RECURSIVE DomLoopMainUnfiltered(_)
DomLoopMainUnfiltered(nodes) ==
    IF nodes = <<>> THEN <<>>
    ELSE LET node == Head(nodes)
             role == IF node.role = "" THEN "assistant" ELSE node.role
             text == GetText(node)
         IN  <<[speaker |-> role, content |-> text]>>
             \o DomLoopMainUnfiltered(Tail(nodes))

\* main.py lines 161-172: the loop of parse_chatgpt_dom
RECURSIVE DomLoopMain(_)
DomLoopMain(nodes) ==
    IF nodes = <<>> THEN <<>>
    ELSE LET node == Head(nodes)
             role == IF node.role = "" THEN "assistant" ELSE node.role
             text == GetText(node)
         IN  (IF text = <<>> THEN <<>>
              ELSE <<[speaker |-> role, content |-> text]>>)
             \o DomLoopMain(Tail(nodes))

parse_chatgpt_dom(h) ==
    IF h.nodes = <<>> THEN NoConv
    ELSE LET messages == DomLoopMain(h.nodes)
         IN  IF messages = <<>> THEN NoConv ELSE Conv(messages)

\* api/index.py lines 61-64: the loop over soup.select("[data-message-author-role]")
RECURSIVE DomLoopApi(_)
DomLoopApi(nodes) ==
    IF nodes = <<>> THEN <<>>
    ELSE LET msg == Head(nodes)
             role == IF msg.role = "user" THEN "You" ELSE "Assistant"
             text == GetText(msg)
         IN  <<[speaker |-> role, content |-> text]>> \o DomLoopApi(Tail(nodes))

(* --------------------- embedded structured data ----------------------- *)

\* json.dumps(content): never empty, "{}" for an empty object
JsonDump(content) == <<"{", "}">>

RECURSIVE TruthyParts(_)
TruthyParts(parts) ==
    IF parts = <<>> THEN <<>>
    ELSE (IF Head(parts) = <<>> THEN <<>> ELSE <<Head(parts)>>)
         \o TruthyParts(Tail(parts))

\* lines 238-257: the text of one message, stripped
ItemText(content) ==
    LET joined == IF content.content_type = "text"
                  THEN Join(<<"\n", "\n">>, TruthyParts(content.parts))
                  ELSE <<>>
        text == IF joined # <<>> THEN joined
                ELSE IF content.text # <<>> THEN content.text[1]
                ELSE JsonDump(content)
    IN  Strip(text)

\* line 253: message.get("create_time") or node.get("create_time") or 0
CreateTime(node) ==
    IF node.msgTime # 0 THEN node.msgTime
    ELSE IF node.nodeTime # 0 THEN node.nodeTime
    ELSE 0

\* lines 230-262: flatten the mapping, numbering the nodes that hold a message
RECURSIVE FlattenMapping(_, _)
FlattenMapping(nodes, order_counter) ==
    IF nodes = <<>> THEN <<>>
    ELSE LET node == Head(nodes)
         IN  IF ~node.hasMessage THEN FlattenMapping(Tail(nodes), order_counter)
             ELSE <<[author |-> IF node.role = "" THEN "unknown" ELSE node.role,
                     text |-> ItemText(node.content),
                     create_time |-> CreateTime(node),
                     order |-> order_counter]>>
                  \o FlattenMapping(Tail(nodes), order_counter + 1)

roles_keep == {"user", "assistant", "system"}

\* line 266
KeepItems(items) ==
    SelectSeq(items, LAMBDA m : m.author \in roles_keep /\ m.text # <<>>)

\* the sort key of line 271, compared as Python compares tuples
KeyLess(a, b) ==
    \/ a.create_time < b.create_time
    \/ a.create_time = b.create_time /\ a.order < b.order

RECURSIVE SortByKey(_)
SortByKey(items) ==
    IF items = <<>> THEN <<>>
    ELSE LET i == CHOOSE i \in 1..Len(items) :
                      \A j \in 1..Len(items) : j = i \/ KeyLess(items[i], items[j])
             rest == [k \in 1..(Len(items) - 1) |->
                          IF k < i THEN items[k] ELSE items[k + 1]]
         IN  <<items[i]>> \o SortByKey(rest)

NoSort(items) == items

\* line 271: items.sort(key=lambda m: (m["create_time"] or 0, m["order"]))
SortItems(items) == SortByKey(items)

\* lines 264-271: the kept items in output order
ShareItems(script) == SortItems(KeepItems(FlattenMapping(script.nodes, 0)))

ItemsToMessages(items) ==
    [i \in 1..Len(items) |-> [speaker |-> items[i].author, content |-> items[i].text]]

parse_chatgpt_share_from_html(h) ==
    IF h.script.kind # "mapping" THEN NoConv
    ELSE LET items == ShareItems(h.script)
         IN  IF items = <<>> THEN NoConv ELSE Conv(ItemsToMessages(items))

(* --------------------------- generic page text ------------------------ *)

RECURSIVE AllStrings(_)
AllStrings(nodes) ==
    IF nodes = <<>> THEN <<>> ELSE Head(nodes).strings \o AllStrings(Tail(nodes))

\* re.sub(r"\s+", " ", text)
RECURSIVE CollapseWs(_)
CollapseWs(s) ==
    IF s = <<>> THEN <<>>
    ELSE IF IsSpace(Head(s))
         THEN <<" ">> \o CollapseWs(LStrip(s))
         ELSE <<Head(s)>> \o CollapseWs(Tail(s))

\* scripts and styles removed, every tag replaced by a space, whitespace
\* collapsed, the result stripped
strip_html_to_text(h) ==
    Strip(CollapseWs(Join(<<" ">>, AllStrings(h.nodes) \o <<h.body>>)))

max_len == 20000

\* " ... [truncated]" with U+2026 as its second character, written "." here
TruncationMarker == <<" ", ".", " ", "[", "t", "r", "u", "n", "c", "a", "t", "e", "d", "]">>

\* the marker appended from the budget on, not only past it
TruncateAtBudget(text) ==
    IF Len(text) >= max_len THEN SubSeq(text, 1, max_len) \o TruncationMarker ELSE text

\* main.py lines 344-345, api/index.py lines 67-68
Truncate(text) ==
    IF Len(text) > max_len THEN SubSeq(text, 1, max_len) \o TruncationMarker ELSE text

GenericMessages(h, speaker) ==
    <<[speaker |-> speaker, content |-> Truncate(strip_html_to_text(h))]>>

(* --------------------------- parse_conversation ----------------------- *)

Urls == {"chatgpt.com", "claude.ai", "example.org"}

\* main.py line 303
IsChatMain(u) == u \in {"chatgpt.com", "chat.openai.com"}

\* api/index.py line 58
IsChatApi(u) == u \in {"chatgpt.com", "claude.ai", "grok.x.ai", "chat.openai.com"}

Failure(error, status) == [kind |-> "error", error |-> error, status |-> status]

\* main.py lines 306-336, without the fall-through to the embedded data
ExtractChatMainDomOnly(h) ==
    IF looks_like_chatgpt_login_or_landing(h) THEN Failure("InterstitialWall", 400)
    ELSE IF parse_chatgpt_dom(h) # NoConv THEN parse_chatgpt_dom(h)
    ELSE Failure("NoMessagesFound", 400)

\* main.py lines 306-336: the rendered ChatGPT page
ExtractChatMain(h) ==
    IF looks_like_chatgpt_login_or_landing(h) THEN Failure("InterstitialWall", 400)
    ELSE IF parse_chatgpt_dom(h) # NoConv THEN parse_chatgpt_dom(h)
    ELSE IF parse_chatgpt_share_from_html(h) # NoConv
         THEN parse_chatgpt_share_from_html(h)
    ELSE Failure("NoMessagesFound", 400)

\* what parse_conversation makes of the HTML it fetched
Extract(v, u, h) ==
    IF v = "main"
    THEN IF IsChatMain(u) THEN ExtractChatMain(h)
         ELSE Conv(GenericMessages(h, "assistant"))
    ELSE IF IsChatApi(u) THEN Conv(DomLoopApi(h.nodes))
         ELSE Conv(GenericMessages(h, "Page_Content"))

(* ------------------------------ formats ------------------------------- *)

MD == <<"m", "d">>

TEX == <<"t", "e", "x">>

PDF == <<"p", "d", "f">>

Recognized == {MD, TEX, PDF}

DefaultFormats == <<MD, TEX>>

Unset == [set |-> FALSE]

Given(names) == [set |-> TRUE, names |-> names]

StripEach(names) == [i \in 1..Len(names) |-> Strip(names[i])]

\* a query string is the pieces between its commas; "" is the one empty piece
TruthyQuery(f) == f.set /\ f.names # << <<>> >>

\* main.py lines 467-473
FormatsGetMain(f) ==
    IF TruthyQuery(f)
    THEN LET stripped == SelectSeq(StripEach(f.names), LAMBDA x : x # <<>>)
             known == SelectSeq(stripped, LAMBDA x : x \in Recognized)
         IN  IF known = <<>> THEN DefaultFormats ELSE known
    ELSE DefaultFormats

\* api/index.py lines 123-125
FormatsGetApi(f) ==
    IF TruthyQuery(f)
    THEN SelectSeq(StripEach(f.names), LAMBDA x : x \in Recognized)
    ELSE DefaultFormats

\* main.py line 455, api/index.py line 118: req.formats or ["md", "tex"]
FormatsPost(f) == IF f.set /\ f.names # <<>> THEN f.names ELSE DefaultFormats

(* ------------------------------ archive ------------------------------- *)

Entries(list) == Range(list) \cap Recognized

\* make_zip_response after parse_conversation returned conv
MakeZip(v, conv, list) ==
    IF v = "api" /\ TEX \in Range(list) /\ conv.messages = <<>>
    THEN Failure("IndexError", 500)       \* to_latex reads conv["messages"][0]
    ELSE [kind |-> "archive", conv |-> conv, entries |-> Entries(list)]

\* parse_conversation's part after the fetch, then the zip
Respond(v, u, h, list) ==
    LET conv == Extract(v, u, h)
    IN  IF conv.kind = "error" THEN conv ELSE MakeZip(v, conv, list)

(* ------------------------------ inputs -------------------------------- *)

RawNames == {MD, <<" ">> \o MD, TEX, PDF, <<"x">>, <<>>}

\* GET /export?formats=...: unset, or the pieces of the string
Queries == {Unset} \cup {Given(n) : n \in SeqsUpTo(RawNames, MaxFormats) \ {<<>>}}

\* POST /export: formats is None or a list the request model accepted
Bodies == {Unset} \cup {Given(n) : n \in SeqsUpTo(Recognized, MaxFormats)}

Node(role, strings) == [role |-> role, strings |-> strings]

Content(type, parts, text) == [content_type |-> type, parts |-> parts, text |-> text]

MapNode(role, content, msgTime, nodeTime) ==
    [hasMessage |-> TRUE, role |-> role, content |-> content,
     msgTime |-> msgTime, nodeTime |-> nodeTime]

NoMessageNode ==
    [hasMessage |-> FALSE, role |-> "", content |-> Content("other", <<>>, <<>>),
     msgTime |-> 0, nodeTime |-> 0]

NoScript == [kind |-> "absent"]

Mapping(nodes) == [kind |-> "mapping", nodes |-> nodes]

Page(phrase, nodes, script, body) ==
    [kind |-> "html", phrase |-> phrase, nodes |-> nodes, script |-> script,
     body |-> body]

PipeNodeSeqs ==
    { <<>>,
      <<Node("assistant", << <<" ">> >>)>>,
      <<Node("user", << <<"H">> >>), Node("assistant", << <<"i">> >>)>>,
      <<Node("user", << <<"H">> >>), Node("system", <<>>)>> }

PipeScripts ==
    { NoScript,
      Mapping(<<MapNode("user", Content("text", << <<"a">> >>, <<>>), 1, 0)>>),
      Mapping(<<MapNode("tool", Content("text", << <<"a">> >>, <<>>), 1, 0)>>) }

\* the pages a fetch of the request pipeline can return
PipeHtmls ==
    {Page(ph, n, sc, b) : ph \in BOOLEAN, n \in PipeNodeSeqs, sc \in PipeScripts,
                          b \in {<<>>, <<"p">>}}

StatusCodes == {200, 403}

(* ------------------------- the request pipeline ----------------------- *)

NoDirect == [kind |-> "none", code |-> 0]

NoResult == [kind |-> "none"]

Init ==
    /\ variant \in {"main", "api"}
    /\ pc = "idle"
    /\ url = "none"
    /\ transport = "none"
    /\ formats = Unset
    /\ fmts = <<>>
    /\ direct = NoDirect
    /\ renderSite = "none"
    /\ renderTries = 0
    /\ html = NoHtml
    /\ openPages = 0
    /\ result = NoResult
    /\ arg = <<>>
    /\ ret = <<>>

\* make_zip_response calls parse_conversation, which starts with the fetch:
\* main.py renders ChatGPT URLs and GETs the rest, api/index.py always GETs
Begin(u, t, f, list) ==
    /\ url' = u
    /\ transport' = t
    /\ formats' = f
    /\ fmts' = list
    /\ direct' = NoDirect
    /\ renderTries' = 0
    /\ html' = NoHtml
    /\ result' = NoResult
    /\ IF variant = "main" /\ IsChatMain(u)
       THEN pc' = "launch" /\ renderSite' = "main"
       ELSE pc' = "direct" /\ renderSite' = "none"
    /\ UNCHANGED <<variant, openPages, arg, ret>>

export_get ==
    /\ pc = "idle"
    /\ \E u \in Urls, f \in Queries :
           Begin(u, "get", f,
                 IF variant = "main" THEN FormatsGetMain(f) ELSE FormatsGetApi(f))

export_post ==
    /\ pc = "idle"
    /\ \E u \in Urls, f \in Bodies : Begin(u, "post", f, FormatsPost(f))

\* an exception of the rendered fetch reaches its caller
RenderRaised(error) ==
    IF variant = "api" /\ renderSite = "try"
    THEN \* the bare except of fetch_html_or_explain renders once more
         /\ pc' = "launch"
         /\ renderSite' = "except"
         /\ UNCHANGED result
    ELSE /\ pc' = "error"
         /\ result' = Failure(error, 500)
         /\ UNCHANGED renderSite

\* requests.get raises
DirectGetRaises ==
    /\ pc = "direct"
    /\ direct' = [kind |-> "neterr", code |-> 0]
    /\ IF variant = "main"
       THEN pc' = "error" /\ result' = Failure("Unreachable", 400)
                          /\ UNCHANGED renderSite
       ELSE pc' = "launch" /\ renderSite' = "except" /\ UNCHANGED result
    /\ UNCHANGED <<variant, url, transport, formats, fmts, renderTries, html,
                   openPages, arg, ret>>

\* a status >= 400 ends the request in both applications
DirectGetBadStatusBails ==
    /\ pc = "direct"
    /\ \E code \in {c \in StatusCodes : c >= 400} :
           direct' = [kind |-> "status", code |-> code]
    /\ pc' = "error"
    /\ result' = Failure("BadStatus", 400)
    /\ UNCHANGED <<variant, url, transport, formats, fmts, renderSite, renderTries,
                   html, openPages, arg, ret>>

\* requests.get returns a status >= 400
DirectGetBadStatus ==
    /\ pc = "direct"
    /\ \E code \in {c \in StatusCodes : c >= 400} :
           direct' = [kind |-> "status", code |-> code]
    /\ IF variant = "main"
       THEN pc' = "error" /\ result' = Failure("BadStatus", 400)
                          /\ UNCHANGED renderSite
       ELSE pc' = "launch" /\ renderSite' = "try" /\ UNCHANGED result
    /\ UNCHANGED <<variant, url, transport, formats, fmts, renderTries, html,
                   openPages, arg, ret>>

\* requests.get returns a page
DirectGetOk ==
    /\ pc = "direct"
    /\ \E code \in {c \in StatusCodes : c < 400} :
           direct' = [kind |-> "status", code |-> code]
    /\ \E h \in PipeHtmls : html' = h
    /\ pc' = "parse"
    /\ UNCHANGED <<variant, url, transport, formats, fmts, renderSite, renderTries,
                   openPages, result, arg, ret>>

\* browser.close(): the browser of this fetch and its page
BrowserClose(pages) == pages - 1

PlaywrightExitLeaks(pages, browserOpen) == pages

\* leaving the "with (async_|sync_)playwright()" block stops the driver, which
\* closes the browser it launched if that is still running
PlaywrightExit(pages, browserOpen) == IF browserOpen THEN pages - 1 ELSE pages

\* chromium.launch and new_page succeed
RenderLaunchOk ==
    /\ pc = "launch"
    /\ openPages < MaxOpen
    /\ renderTries' = renderTries + 1
    /\ openPages' = openPages + 1
    /\ pc' = "goto"
    /\ UNCHANGED <<variant, url, transport, formats, fmts, direct, renderSite, html,
                   result, arg, ret>>

\* chromium.launch raises: nothing was opened
RenderLaunchFails ==
    /\ pc = "launch"
    /\ renderTries' = renderTries + 1
    /\ openPages' = PlaywrightExit(openPages, FALSE)
    /\ RenderRaised("LaunchFailed")
    /\ UNCHANGED <<variant, url, transport, formats, fmts, direct, html, arg, ret>>

\* goto, content and browser.close() succeed; the fetch returns the page
RenderGotoOk ==
    /\ pc = "goto"
    /\ \E h \in PipeHtmls : html' = h
    /\ openPages' = PlaywrightExit(BrowserClose(openPages), FALSE)
    /\ pc' = "parse"
    /\ UNCHANGED <<variant, url, transport, formats, fmts, direct, renderSite,
                   renderTries, result, arg, ret>>

\* goto times out (or anything after new_page raises): browser.close() is skipped
RenderGotoFails ==
    /\ pc = "goto"
    /\ openPages' = PlaywrightExit(openPages, TRUE)
    /\ RenderRaised("RenderTimeout")
    /\ UNCHANGED <<variant, url, transport, formats, fmts, direct, renderTries, html,
                   arg, ret>>

\* the rest of parse_conversation and of make_zip_response
ParseAndZip ==
    /\ pc = "parse"
    /\ result' = Respond(variant, url, html, fmts)
    /\ pc' = IF result'.kind = "error" THEN "error" ELSE "done"
    /\ UNCHANGED <<variant, url, transport, formats, fmts, direct, renderSite,
                   renderTries, html, openPages, arg, ret>>

\* the response is sent; the worker takes the next request
Finish ==
    /\ pc \in {"done", "error"}
    /\ pc' = "idle"
    /\ url' = "none"
    /\ transport' = "none"
    /\ formats' = Unset
    /\ fmts' = <<>>
    /\ direct' = NoDirect
    /\ renderSite' = "none"
    /\ renderTries' = 0
    /\ html' = NoHtml
    /\ result' = NoResult
    /\ UNCHANGED <<variant, openPages, arg, ret>>

Next ==
    \/ export_get
    \/ export_post
    \/ DirectGetRaises
    \/ DirectGetBadStatus
    \/ DirectGetOk
    \/ RenderLaunchOk
    \/ RenderLaunchFails
    \/ RenderGotoOk
    \/ RenderGotoFails
    \/ ParseAndZip
    \/ Finish

Spec == Init /\ [][Next]_vars

(* ------------------------------ escape_latex -------------------------- *)

TextBackslash ==
    <<"\\", "t", "e", "x", "t", "b", "a", "c", "k", "s", "l", "a", "s", "h", "{", "}">>

TextTilde ==
    <<"\\", "t", "e", "x", "t", "a", "s", "c", "i", "i", "t", "i", "l", "d", "e", "{", "}">>

TextCircum ==
    <<"\\", "t", "e", "x", "t", "a", "s", "c", "i", "i", "c", "i", "r", "c", "u", "m",
      "{", "}">>

\* the dict of escape_latex, in insertion order
repl ==
    << <<"\\", TextBackslash>>,
       <<"&", <<"\\", "&">> >>,
       <<"%", <<"\\", "%">> >>,
       <<"$", <<"\\", "$">> >>,
       <<"#", <<"\\", "#">> >>,
       <<"_", <<"\\", "_">> >>,
       <<"{", <<"\\", "{">> >>,
       <<"}", <<"\\", "}">> >>,
       <<"~", TextTilde>>,
       <<"^", TextCircum>> >>

\* text.replace(k, v) for a one-character k
RECURSIVE Replace(_, _, _)
Replace(text, k, v) ==
    IF text = <<>> THEN <<>>
    ELSE (IF Head(text) = k THEN v ELSE <<Head(text)>>) \o Replace(Tail(text), k, v)

\* the loop "for k, v in repl.items(): text = text.replace(k, v)" from entry i on
RECURSIVE ReplaceFrom(_, _)
ReplaceFrom(text, i) ==
    IF i > Len(repl) THEN text
    ELSE ReplaceFrom(Replace(text, repl[i][1], repl[i][2]), i + 1)

escape_latex(text) == ReplaceFrom(text, 1)

(* ------------------- the parsers and the escaper alone ---------------- *)
(* Each function is applied to every input of a bounded family: arg holds  *)
(* the input, ret the value returned.                                      *)

Idle ==
    /\ url = "none"
    /\ transport = "none"
    /\ formats = Unset
    /\ fmts = <<>>
    /\ direct = NoDirect
    /\ renderSite = "none"
    /\ renderTries = 0
    /\ html = NoHtml
    /\ openPages = 0
    /\ result = NoResult

Return(value) ==
    /\ pc = "call"
    /\ ret' = value
    /\ pc' = "return"
    /\ UNCHANGED <<variant, url, transport, formats, fmts, direct, renderSite,
                   renderTries, html, openPages, result, arg>>

\* DOM attribute scan
DomRoles == {"user", "assistant", "system", ""}

DomStrings == {<<>>, << <<" ">> >>, << <<"a">> >>, << <<" ", "b">>, <<"c">> >>}

DomPages ==
    {Page(FALSE, n, NoScript, <<>>) :
         n \in SeqsUpTo({Node(r, t) : r \in DomRoles, t \in DomStrings}, MaxNodes)}

InitDom ==
    /\ Idle
    /\ variant \in {"main", "api"}
    /\ pc = "call"
    /\ arg \in DomPages
    /\ ret = NoConv

DomScan ==
    Return(IF variant = "main" THEN parse_chatgpt_dom(arg) ELSE Conv(DomLoopApi(arg.nodes)))

SpecDom == InitDom /\ [][DomScan]_vars

\* embedded structured data
ShareContents ==
    { <<"user", Content("text", << <<"a">> >>, <<>>)>>,
      <<"assistant", Content("text", << <<"b">>, <<>>, <<"c">> >>, <<>>)>>,
      <<"tool", Content("other", <<>>, <<>>)>>,
      <<"user", Content("other", <<>>, << <<" ">> >>)>> }

\* create_time on the message (0: absent), or absent there and set on the node
ShareTimes == {<<t, 0>> : t \in 0..MaxTime}

ShareNodes ==
    {MapNode(c[1], c[2], t[1], t[2]) : c \in ShareContents, t \in ShareTimes}
    \cup {MapNode("user", Content("text", << <<"a">> >>, <<>>), 0, MaxTime),
          NoMessageNode}

SharePages ==
    {Page(FALSE, <<>>, Mapping(n), <<>>) : n \in SeqsUpTo(ShareNodes, MaxMapping)}

InitShare ==
    /\ Idle
    /\ variant = "main"
    /\ pc = "call"
    /\ arg \in SharePages
    /\ ret = NoConv

ShareParse == Return(parse_chatgpt_share_from_html(arg))

SpecShare == InitShare /\ [][ShareParse]_vars

\* escape_latex
EscapeAlphabet == {"\\", "{", "&", "~", "a"}

InitEscape ==
    /\ Idle
    /\ variant \in {"main", "api"}
    /\ pc = "call"
    /\ arg \in SeqsUpTo(EscapeAlphabet, MaxText)
    /\ ret = <<>>

EscapeLatex == Return(escape_latex(arg))

SpecEscape == InitEscape /\ [][EscapeLatex]_vars

(* ============================== claims ================================ *)

Messages(conv) == IF conv.kind = "conv" THEN conv.messages ELSE <<>>

DirectFailed ==
    \/ direct.kind = "neterr"
    \/ direct.kind = "status" /\ direct.code >= 400

RenderErrors == {"LaunchFailed", "RenderTimeout"}

FetchErrors == {"Unreachable", "BadStatus"} \cup RenderErrors

FetchFailed == pc = "error" /\ result.error \in FetchErrors

\* C1 as stated: a request whose direct GET failed (network error, timeout or
\* status >= 400) ends in a fetch error only after a rendered fetch was tried and
\* failed, and the error reported is the rendered fetch's.
C1_RenderBeforeFailure ==
    (DirectFailed /\ FetchFailed) =>
        (renderTries >= 1 /\ result.error \in RenderErrors)

\* C1 amended: api/index.py falls back to the rendered fetch on every failure of
\* the direct GET and fails only with the rendered fetch's error; main.py's
\* fetch_html_or_explain attempts no rendered fetch and ends the request at once
\* with HTTP 400 and the direct fetch's own error.
C1_FallbackPerVariant ==
    /\ (variant = "api" /\ DirectFailed) =>
           /\ pc = "launch" \/ renderTries >= 1
           /\ FetchFailed => (renderTries >= 1 /\ result.error \in RenderErrors)
           /\ (FetchFailed /\ direct.kind = "status") => renderTries = 2
    /\ (variant = "main" /\ DirectFailed) =>
           /\ pc = "error"
           /\ renderTries = 0
           /\ result = Failure(IF direct.kind = "neterr" THEN "Unreachable"
                               ELSE "BadStatus", 400)

\* C1 witness: api/index.py, direct 403, then the rendered fetch timed out.
C1_Witness ==
    /\ variant = "api"
    /\ direct = [kind |-> "status", code |-> 403]
    /\ pc = "error"
    /\ result.error = "RenderTimeout"

\* C2 as stated: every Conversation that parse_conversation returns, and that the
\* renderers receive, has at least one message.
C2_ConversationNonEmpty ==
    (pc = "done" /\ result.kind = "archive") => Len(result.conv.messages) >= 1

KnownChat == IF variant = "main" THEN IsChatMain(url) ELSE IsChatApi(url)

\* C3 as stated: when the fetch failed, or the fetched HTML of a known chat
\* platform is a login / app / marketing wall (a listed phrase, or no role-marked
\* element), the request ends in an error and no archive is built.
C3_WallEndsInError ==
    (pc \in {"done", "error"}
        /\ (html = NoHtml
            \/ (KnownChat /\ html # NoHtml /\ looks_like_chatgpt_login_or_landing(html))))
    => (pc = "error" /\ result.kind = "error")

\* C5 as stated: every message of every Conversation an extractor produced has
\* non-empty trimmed content.
C5_ContentNonEmpty ==
    (pc = "done" /\ result.kind = "archive") =>
        \A i \in 1..Len(result.conv.messages) :
            Strip(result.conv.messages[i].content) # <<>>

RequestedKnown ==
    IF formats.set THEN Range(StripEach(formats.names)) \cap Recognized ELSE {}

\* C6 as stated: on both transports the effective format set is the requested
\* names that are recognized, {md, tex} when none is left or none was given, and
\* the archive never has zero entries because of the formats argument.
C6_EffectiveFormats ==
    /\ pc \notin {"idle", "call", "return"} =>
           Range(fmts) = IF RequestedKnown = {} THEN {MD, TEX} ELSE RequestedKnown
    /\ (pc = "done" /\ result.kind = "archive") => result.entries # {}

RECURSIVE Simultaneous(_)
Simultaneous(text) ==
    IF text = <<>> THEN <<>>
    ELSE LET hit == {i \in 1..Len(repl) : repl[i][1] = Head(text)}
         IN  (IF hit = {} THEN <<Head(text)>> ELSE repl[CHOOSE i \in hit : TRUE][2])
             \o Simultaneous(Tail(text))

\* C7 as stated: escape_latex returns what one simultaneous per-character
\* substitution of its input gives; characters a replacement introduced are not
\* escaped again.
C7_SingleSubstitution == pc = "return" => ret = Simultaneous(arg)

MainChatParsed ==
    /\ pc \in {"done", "error"}
    /\ variant = "main"
    /\ IsChatMain(url)
    /\ html # NoHtml

\* C8 as stated: for a chat-platform URL, when the DOM scan misses (also when the
\* page holds no role-marked element at all) the __NEXT_DATA__ parse runs next on
\* the same HTML and its Conversation is returned if it yields messages.
C8_DomMissFallsThrough ==
    (MainChatParsed /\ parse_chatgpt_dom(html) = NoConv
        /\ parse_chatgpt_share_from_html(html) # NoConv)
    => (pc = "done" /\ result.kind = "archive"
        /\ result.conv = parse_chatgpt_share_from_html(html))

\* C8 amended: a page that is a wall (a listed phrase, or no role-marked element
\* at all) ends in the wall error before any extractor runs; on a page that passed
\* the wall check, a miss of the DOM scan (every role-marked element has empty
\* text) is followed by the __NEXT_DATA__ parse, whose Conversation is returned if
\* it yields messages, and the request fails only when that misses too.
C8_FallThroughAfterWallCheck ==
    /\ (MainChatParsed /\ looks_like_chatgpt_login_or_landing(html)) =>
           (pc = "error" /\ result = Failure("InterstitialWall", 400))
    /\ (MainChatParsed /\ ~looks_like_chatgpt_login_or_landing(html)
            /\ parse_chatgpt_dom(html) = NoConv) =>
           IF parse_chatgpt_share_from_html(html) # NoConv
           THEN /\ pc = "done"
                /\ result.kind = "archive"
                /\ result.conv = parse_chatgpt_share_from_html(html)
           ELSE pc = "error" /\ result = Failure("NoMessagesFound", 400)

\* C8 witness: the DOM scan missed and the embedded data's messages were exported.
C8_Witness ==
    /\ MainChatParsed
    /\ pc = "done"
    /\ html.nodes # <<>>
    /\ parse_chatgpt_dom(html) = NoConv
    /\ result.conv.messages = <<[speaker |-> "user", content |-> <<"a">>]>>

HasText(node) == GetText(node) # <<>>

Requester == IF variant = "main" THEN "user" ELSE "You"

Responder == IF variant = "main" THEN "assistant" ELSE "Assistant"

\* C4 as stated: a page whose N role-marked elements all have non-empty text
\* gives exactly N messages in document order, the speaker being the requester
\* label for role "user" and the responder label for every other role value.
C4_TwoWayMapping ==
    (pc = "return" /\ \A i \in 1..Len(arg.nodes) : HasText(arg.nodes[i])) =>
        /\ Len(Messages(ret)) = Len(arg.nodes)
        /\ \A i \in 1..Len(arg.nodes) :
               /\ Messages(ret)[i].content = GetText(arg.nodes[i])
               /\ Messages(ret)[i].speaker =
                      IF arg.nodes[i].role = "user" THEN Requester ELSE Responder

\* C4 amended: the scan yields, in document order, one message per role-marked
\* element with non-empty text (main.py; api/index.py yields one per role-marked
\* element, so the same N when all have text); the speaker depends on the role
\* value alone, through the two-way mapping user -> "You", other -> "Assistant"
\* in api/index.py, but in main.py it is the role value itself, with "assistant"
\* standing in for an empty value only.
C4_SpeakerPerVariant ==
    pc = "return" =>
        LET nodes == IF variant = "main" THEN SelectSeq(arg.nodes, HasText)
                     ELSE arg.nodes
        IN  /\ Len(Messages(ret)) = Len(nodes)
            /\ \A i \in 1..Len(nodes) :
                   /\ Messages(ret)[i].content = GetText(nodes[i])
                   /\ Messages(ret)[i].speaker =
                          IF variant = "api"
                          THEN (IF nodes[i].role = "user" THEN "You" ELSE "Assistant")
                          ELSE (IF nodes[i].role = "" THEN "assistant"
                                ELSE nodes[i].role)

\* C4 witness: main.py scanned a page of which one role-marked element has no
\* text, and returned the messages of the others, the last with speaker "system".
C4_Witness ==
    /\ pc = "return"
    /\ variant = "main"
    /\ Len(arg.nodes) = MaxNodes
    /\ \E i \in 1..Len(arg.nodes) : ~HasText(arg.nodes[i])
    /\ Len(Messages(ret)) = MaxNodes - 1
    /\ Messages(ret)[Len(Messages(ret))].speaker = "system"

Kept == KeepItems(FlattenMapping(arg.script.nodes, 0))

\* the place of item k of kept in the order (create_time, encounter index)
Rank(kept, k) == 1 + Cardinality({j \in 1..Len(kept) : KeyLess(kept[j], kept[k])})

\* C9: the messages are the kept items (role user, assistant or system, text not
\* empty) in the order of (create_time, encounter index), a missing create_time
\* counting as 0; with strictly increasing create_time, or with all create_time
\* equal or absent, that is the mapping's own order.
C9_SortedByTimeThenEncounter ==
    pc = "return" =>
        LET kept == Kept
            out == Messages(ret)
        IN  /\ Len(out) = Len(kept)
            /\ \A k \in 1..Len(kept) :
                   out[Rank(kept, k)] =
                       [speaker |-> kept[k].author, content |-> kept[k].text]
            /\ (\A i \in 1..(Len(kept) - 1) :
                       kept[i].create_time < kept[i + 1].create_time)
                   => out = ItemsToMessages(kept)
            /\ (\A i \in 1..(Len(kept) - 1) :
                       kept[i].create_time = kept[i + 1].create_time)
                   => out = ItemsToMessages(kept)

\* C9 witness: a later item of the mapping carries the smaller create_time and
\* came out first.
C9_Witness ==
    /\ pc = "return"
    /\ Len(Kept) >= 2
    /\ Kept[1].create_time > Kept[2].create_time
    /\ Kept[1].text # Kept[2].text
    /\ Messages(ret)[1].content = Kept[2].text

(* --------------------- truncation of the page text -------------------- *)
(* arg is the text strip_html_to_text returned (whitespace collapsed and    *)
(* stripped), of a length near 0 or near the budget; ret is the content of  *)
(* the single message the generic path builds from it.                      *)

TextLengths ==
    (0..MaxDelta) \cup {n \in (max_len - MaxDelta)..(max_len + MaxDelta) : n >= 0}

\* n times the letter a
Letters(n) == [i \in 1..n |-> "a"]

\* one-letter words separated by single spaces
Words(n) == [i \in 1..n |-> IF i % 2 = 0 /\ i < n THEN " " ELSE "a"]

\* a text that itself ends with the words of the truncation marker
EndsLikeMarker(n) ==
    [i \in 1..n |-> IF i > n - Len(TruncationMarker)
                    THEN TruncationMarker[i - (n - Len(TruncationMarker))]
                    ELSE "a"]

CollapsedTexts ==
    {Letters(n) : n \in TextLengths}
    \cup {Words(n) : n \in TextLengths}
    \cup {EndsLikeMarker(n) : n \in {m \in TextLengths : m > Len(TruncationMarker)}}

InitTruncate ==
    /\ Idle
    /\ variant \in {"main", "api"}
    /\ pc = "call"
    /\ arg \in CollapsedTexts
    /\ ret = <<>>

GenericTruncate == Return(Truncate(arg))

SpecTruncate == InitTruncate /\ [][GenericTruncate]_vars

EndsWithMarker(text) ==
    /\ Len(text) >= 14
    /\ SubSeq(text, Len(text) - 13, Len(text)) =
           <<" ", ".", " ", "[", "t", "r", "u", "n", "c", "a", "t", "e", "d", "]">>

\* C11: with budget 20000 and the 14-character marker, a collapsed text longer
\* than the budget gives its first 20000 characters followed by the marker
\* (length at most budget + marker length, ending with the marker); a text of at
\* most 20000 characters, exactly 20000 included, is the content unchanged, with
\* no marker appended.
C11_TruncatedAtBudget ==
    pc = "return" =>
        IF Len(arg) > 20000
        THEN /\ Len(ret) = 20000 + 14
             /\ Len(ret) <= 20000 + Len(TruncationMarker)
             /\ \A i \in 1..20000 : ret[i] = arg[i]
             /\ EndsWithMarker(ret)
        ELSE /\ ret = arg
             /\ Len(ret) = Len(arg)

\* C11 witness: a text one character over the budget was cut and marked.
C11_Witness ==
    /\ pc = "return"
    /\ Len(arg) = 20001
    /\ Len(ret) = 20014
    /\ EndsWithMarker(ret)

====
